---- MODULE Spec2Model ----
(***************************************************************************)
(* CodeText (src/src/codetext.rs): a text buffer that keeps a tree-sitter  *)
(* parse tree next to its bytes, edits the tree structurally on every text *)
(* edit, reparses, and turns the query's captures into style spans.        *)
(*                                                                         *)
(* Bytes are numbers.  A String is a sequence of bytes that is valid       *)
(* UTF-8; offsets are zero-based as in the source, sequences are one-based *)
(* as in TLA+, so the byte at offset i is buf[i + 1].                      *)
(***************************************************************************)
EXTENDS Integers, Sequences, FiniteSets, TLC

VARIABLES
    buffer,     \* CodeText.buffer: the bytes of the String
    tree,       \* CodeText.tree: <<>> is None, <<t>> is Some(t)
    query,      \* CodeText.query: the compiled query (its capture names)
    attrs,      \* CodeText.attrs: the style table, one entry per capture name
    parser,     \* CodeText.parser: the mutex-guarded parser
    clones,     \* the other CodeText values made by clone(): buffer and tree
                \* of each; parser, query and attrs are the shared ones above
    result,     \* how the latest call ended: "ok", "panic" or "deadlock"
    lastOp,     \* the latest call: "new", "clone", "edit" or "add_attributes"
    target,     \* the receiver of the latest call: 0 is the value above,
                \* i > 0 is clones[i]
    req,        \* the arguments of the latest edit call, <<>> otherwise
    old,        \* buffer and tree as they were when the latest call began
    parsed,     \* what Parser::parse returned in the latest call, if it ran
    steps,      \* the state-changing calls the latest edit made, in order
    inputEdit,  \* the InputEdit the latest edit handed to Tree::edit, or <<>>
    held,       \* whether the mutex was locked when the latest update began,
                \* while it parsed and when it returned; <<>> without update
    retained,   \* the captures the loop of the latest add_attributes kept
    builder     \* the range attributes the latest add_attributes added

vars == <<buffer, tree, query, attrs, parser, clones, result, lastOp, target,
          req, old, parsed, steps, inputEdit, held, retained, builder>>

(***************************************************************************)
(* Bounds of the model.                                                    *)
(***************************************************************************)
MaxLen == 3        \* longest buffer, in bytes
MaxNodes == 2      \* node identities a capture stream may mention
MaxCaps == 3       \* longest capture stream
MaxNames == 1      \* longest capture-name list the style table is built from
MaxClones == 1     \* clones of the CodeText alive at a time

(***************************************************************************)
(* Program constants.                                                      *)
(***************************************************************************)
NewLine == 10      \* '\n' as u8
SeedLine == 10     \* let mut line = 10;
SeedCol == 10      \* let mut col = 10;

(***************************************************************************)
(* Strings: valid UTF-8 over 'a', '\n' and the two-byte 'é' (C3 A9).       *)
(***************************************************************************)
Chars == {<<97>>, <<NewLine>>, <<195, 169>>}

RECURSIVE Strs(_)
Strs(n) ==
    {<<>>} \cup UNION {{c \o s : s \in Strs(n - Len(c))} : c \in {d \in Chars : Len(d) <= n}}

\* The replacement texts an edit is called with.
Texts == {<<>>, <<97>>, <<NewLine>>}

(***************************************************************************)
(* Positions: tree_sitter::Point (row, column).                            *)
(***************************************************************************)
Point(row, column) == [row |-> row, column |-> column]

\* A scan that indexed the byte slice out of bounds and panicked.
ScanPanic == [row |-> -1, column |-> -1]

\* Mutant: a line break moves to the next line and keeps the column.
Advance_KeepsColumn(p, byte) ==
    IF byte = NewLine THEN Point(p.row + 1, p.column) ELSE Point(p.row, p.column + 1)

\* The body of the three scanning loops: one byte moves (line, col).
Advance(p, byte) ==
    IF byte = NewLine THEN Point(p.row + 1, 0) ELSE Point(p.row, p.column + 1)

\* for i in from..to { if buffer[i] == '\n' ... }: buffer[i] panics when
\* i is not below the length of the slice.
RECURSIVE ScanRange(_, _, _, _)
ScanRange(buf, from, to, p) ==
    IF from >= to THEN p
    ELSE IF from >= Len(buf) THEN ScanPanic
    ELSE ScanRange(buf, from + 1, to, Advance(p, buf[from + 1]))

\* for c in new.as_bytes() { ... }: the replacement text, byte by byte.
RECURSIVE ScanText(_, _)
ScanText(text, p) ==
    IF text = <<>> THEN p ELSE ScanText(Tail(text), Advance(p, Head(text)))

\* let mut line = 10; let mut col = 10;
SeedPoint == Point(SeedLine, SeedCol)

(***************************************************************************)
(* String::replace_range, which druid's EditableText::edit for String      *)
(* calls: it asserts both ends are char boundaries, then splices the       *)
(* bytes; the splice panics when start > end or end > len.                 *)
(***************************************************************************)
IsCharBoundary(buf, i) ==
    \/ i = 0
    \/ i = Len(buf)
    \/ i < Len(buf) /\ ~(buf[i + 1] \in 128..191)

ReplaceRangePanics(buf, start, end) ==
    \/ ~IsCharBoundary(buf, start)
    \/ ~IsCharBoundary(buf, end)
    \/ start > end
    \/ end > Len(buf)

\* Mutant: the text is inserted at start and the old range is not removed.
ReplaceRange_KeepsRange(buf, start, end, text) ==
    SubSeq(buf, 1, start) \o text \o SubSeq(buf, start + 1, Len(buf))

ReplaceRange(buf, start, end, text) ==
    SubSeq(buf, 1, start) \o text \o SubSeq(buf, end + 1, Len(buf))

(***************************************************************************)
(* The tree.  A tree records the text it was parsed from (src), the bytes  *)
(* its root covers (extent), whether Tree::edit has touched it since it    *)
(* was parsed (edited), which previous tree the parse was given (prev) and *)
(* the captures the query yields on it (caps).                             *)
(***************************************************************************)
None == <<>>
Some(t) == <<t>>
IsSome(o) == o # <<>>
Unwrap(o) == o[1]

SatSub(a, b) == IF a > b THEN a - b ELSE 0

\* Mutant: the new end is counted from the old end of the range.
InputEditOf_FromOldEnd(start, end, text, startPos, oldEndPos, newEndPos) ==
    [start_byte |-> start,
     old_end_byte |-> end,
     new_end_byte |-> end + Len(text),
     start_position |-> startPos,
     old_end_position |-> oldEndPos,
     new_end_position |-> newEndPos]

\* InputEdit { start_byte, old_end_byte, new_end_byte, start_position, ... }
InputEditOf(start, end, text, startPos, oldEndPos, newEndPos) ==
    [start_byte |-> start,
     old_end_byte |-> end,
     new_end_byte |-> start + Len(text),
     start_position |-> startPos,
     old_end_position |-> oldEndPos,
     new_end_position |-> newEndPos]

\* Tree::edit on the root: an edit that begins past the tree leaves its
\* extent alone, any other one makes it end new_end_byte plus what the tree
\* had after old_end_byte.  The tree is marked as edited and not reparsed.
TreeEditExtent(extent, ie) ==
    IF \/ ie.start_byte > extent
       \/ ie.start_byte = extent /\ ie.old_end_byte # ie.start_byte
    THEN extent
    ELSE ie.new_end_byte + SatSub(extent, ie.old_end_byte)

\* Mutant: the structural edit is left out and the tree stays as parsed.
TreeEdit_Skipped(t, ie) == t

TreeEdit(t, ie) ==
    [t EXCEPT !.edited = TRUE, !.extent = TreeEditExtent(t.extent, ie)]

\* What update hands to Parser::parse as old tree: self.tree.as_ref().
PrevKind(o) ==
    IF ~IsSome(o) THEN "none"
    ELSE IF Unwrap(o).edited THEN "edited" ELSE "unedited"

\* parser.parse(&self.buffer, self.tree.as_ref()): Some(tree) of the whole
\* text, or None when the parser gives up.
Parse(buf, prev, ok, caps) ==
    IF ok
    THEN Some([src |-> buf, extent |-> Len(buf), edited |-> FALSE,
               prev |-> PrevKind(prev), caps |-> caps])
    ELSE None

(***************************************************************************)
(* The style table.  A hex colour is written as its digits: "#61afef" is   *)
(* <<6, 1, 10, 15, 14, 15>>.                                               *)
(***************************************************************************)
TextColor(c) == [attr |-> "TextColor", value |-> c]
Underline(b) == [attr |-> "Underline", value |-> b]

Rgba(r, g, b, a) == [r |-> r, g |-> g, b |-> b, a |-> a]

\* druid::Color::from_hex_str: "#rgb", "#rgba", "#rrggbb" and "#rrggbbaa"
\* parse, any other length is an error.
FromHexStr(d) ==
    CASE Len(d) = 3 -> [ok |-> TRUE,
                        color |-> Rgba(17 * d[1], 17 * d[2], 17 * d[3], 255)]
      [] Len(d) = 4 -> [ok |-> TRUE,
                        color |-> Rgba(17 * d[1], 17 * d[2], 17 * d[3], 17 * d[4])]
      [] Len(d) = 6 -> [ok |-> TRUE,
                        color |-> Rgba(16 * d[1] + d[2], 16 * d[3] + d[4],
                                       16 * d[5] + d[6], 255)]
      [] Len(d) = 8 -> [ok |-> TRUE,
                        color |-> Rgba(16 * d[1] + d[2], 16 * d[3] + d[4],
                                       16 * d[5] + d[6], 16 * d[7] + d[8])]
      [] OTHER -> [ok |-> FALSE, color |-> Rgba(0, 0, 0, 0)]

\* const fn color(hex: &str) -> TextAttribute
color(hex) ==
    LET c == FromHexStr(hex)
    IN  IF c.ok THEN TextColor(c.color) ELSE Underline(TRUE)

\* The names the match in CodeText::new knows.
KnownNames ==
    {"constructor", "constant", "function.builtin", "function.method",
     "function", "variable", "property", "type", "constant.builtin", "number",
     "comment", "string", "escape", "punctuation.special", "embedded",
     "operator", "keyword"}

\* match name.as_str() { "constructor" => color("#61afef"), ... }
StyleOf(name) ==
    CASE name = "constructor" -> color(<<6, 1, 10, 15, 14, 15>>)
      [] name = "constant" -> color(<<5, 6, 11, 6, 12, 2>>)
      [] name = "function.builtin" -> color(<<9, 8, 12, 3, 7, 9>>)
      [] name = "function.method" -> color(<<9, 8, 12, 3, 7, 9>>)
      [] name = "function" -> color(<<9, 8, 12, 3, 7, 9>>)
      [] name = "variable" -> color(<<6, 1, 10, 15, 14, 15>>)
      [] name = "property" -> color(<<10, 11, 11, 2, 11, 15>>)
      [] name = "type" -> color(<<6, 1, 10, 15, 14, 15>>)
      [] name = "constant.builtin" -> color(<<5, 6, 11, 6, 12, 2>>)
      [] name = "number" -> color(<<12, 6, 7, 8, 13, 13>>)
      [] name = "comment" -> color(<<6, 7, 6, 15, 7, 13>>)
      [] name = "string" -> color(<<14, 5, 12, 0, 7, 11>>)
      [] name = "escape" -> color(<<5, 6, 11, 6, 12, 2>>)
      [] name = "punctuation.special" -> color(<<12, 6, 7, 8, 13, 13>>)
      [] name = "embedded" -> color(<<12, 6, 7, 8, 13, 13>>)
      [] name = "operator" -> color(<<14, 0, 6, 12, 7, 5>>)
      [] name = "keyword" -> color(<<14, 0, 6, 12, 7, 5>>)
      [] OTHER -> Underline(TRUE)

\* Mutant: names the match does not know get no entry.
StyleTable_DropsUnknown(names) ==
    LET known == SelectSeq(names, LAMBDA n : n \in KnownNames)
    IN  [i \in 1..Len(known) |-> StyleOf(known[i])]

\* query.capture_names().iter().map(|name| ...).collect()
StyleTable(names) == [i \in 1..Len(names) |-> StyleOf(names[i])]

\* Capture names a query may declare: the known ones and two others.
NameUniverse == KnownNames \cup {"label", "tag"}

RECURSIVE NameLists(_)
NameLists(n) ==
    IF n = 0 THEN {<<>>}
    ELSE LET shorter == NameLists(n - 1)
         IN  shorter \cup
             {Append(l, x) : l \in {k \in shorter : Len(k) = n - 1},
                             x \in NameUniverse}

\* The capture names of the query the editing runs are made with.
EditNames == <<"number", "label">>

(***************************************************************************)
(* Capture streams.  A capture is a node (its identity, a non-null         *)
(* address, and its byte range) and the index of its capture name.         *)
(***************************************************************************)
Capture(node, range, index) == [node |-> node, range |-> range, index |-> index]

Ranges(len) == {r \in (0..len) \X (0..len) : r[1] <= r[2]}

RECURSIVE SeqsUpTo(_, _)
SeqsUpTo(S, n) ==
    IF n = 0 THEN {<<>>}
    ELSE LET shorter == SeqsUpTo(S, n - 1)
         IN  shorter \cup
             {Append(q, x) : q \in {k \in shorter : Len(k) = n - 1}, x \in S}

\* Every stream of at most MaxCaps captures over MaxNodes nodes, each node
\* with one byte range inside the text.
CaptureStreams(len, nNames) ==
    UNION {SeqsUpTo({Capture(n, nr[n], i) : n \in 1..MaxNodes, i \in 0..(nNames - 1)},
                    MaxCaps)
           : nr \in [1..MaxNodes -> Ranges(len)]}

\* The streams of the editing runs: nothing captured, or the root alone
\* under the query's last capture name.
EditStreams(len, nNames) ==
    {<<>>} \cup {<<Capture(1, <<0, len>>, i)>> : i \in {k \in {nNames - 1} : k >= 0}}

\* The streams of the style runs: nothing captured, or the root alone under
\* any capture name of the query.
StyleStreams(len, nNames) ==
    {<<>>} \cup {<<Capture(1, <<0, len>>, i)>> : i \in 0..(nNames - 1)}

\* What a parse may come to: no tree, or a tree with one of the streams.
ParseOutcomes(streams) ==
    {[ok |-> FALSE, caps |-> <<>>]} \cup {[ok |-> TRUE, caps |-> c] : c \in streams}

(***************************************************************************)
(* add_attributes: the loop over the captures.                             *)
(***************************************************************************)
\* Mutant: a capture is skipped when its byte range is that of the capture
\* before it, whatever their nodes.
RECURSIVE RetainLoop_ByRange(_, _, _, _)
RetainLoop_ByRange(caps, i, last_node_id, kept) ==
    IF i > Len(caps) THEN kept
    ELSE IF i > 1 /\ caps[i].range = caps[i - 1].range
         THEN RetainLoop_ByRange(caps, i + 1, last_node_id, kept)
         ELSE RetainLoop_ByRange(caps, i + 1, caps[i].node, Append(kept, caps[i]))

\* let mut last_node_id = 0; for ... { if capture.node.id() == last_node_id
\* { continue; } last_node_id = capture.node.id(); ... }
RECURSIVE RetainLoop(_, _, _, _)
RetainLoop(caps, i, last_node_id, kept) ==
    IF i > Len(caps) THEN kept
    ELSE IF caps[i].node = last_node_id
         THEN RetainLoop(caps, i + 1, last_node_id, kept)
         ELSE RetainLoop(caps, i + 1, caps[i].node, Append(kept, caps[i]))

\* Mutant: last_node_id starts as 1, which a node may have as its id.
Retained_SeededWithOne(caps) == RetainLoop(caps, 1, 1, <<>>)

\* Mutant: last_node_id outlives the call, so a call starts from the node
\* the call before it ended on.
Retained_Remembers(caps) ==
    RetainLoop(caps, 1,
               IF retained = <<>> THEN 0 ELSE retained[Len(retained)].node, <<>>)

Retained(caps) == RetainLoop(caps, 1, 0, <<>>)

\* self.attrs[capture.index as usize] panics when the index is out of range.
IndexPanics(kept, table) == \E i \in 1..Len(kept) : kept[i].index >= Len(table)

\* builder.range_attribute(range, clone_attr(&self.attrs[capture.index]))
RangeAttribute(c, table) == [range |-> c.range, attr |-> table[c.index + 1]]

\* The range attributes added before the loop ends or an index panics.
RECURSIVE BuildLoop(_, _, _, _)
BuildLoop(kept, i, table, out) ==
    IF i > Len(kept) \/ kept[i].index >= Len(table) THEN out
    ELSE BuildLoop(kept, i + 1, table, Append(out, RangeAttribute(kept[i], table)))

(***************************************************************************)
(* update: lock the parser, parse the buffer with the stored tree as old   *)
(* tree, store the result; the guard unlocks when update returns.          *)
(***************************************************************************)
UpdateSteps == <<"parser.lock", "parser.parse", "parser.unlock">>

\* Mutant: a stored tree is kept as it is and only a missing one is parsed.
Update_SkipsReparse(buf, stored, ok, caps) ==
    IF IsSome(stored) THEN stored ELSE Parse(buf, stored, ok, caps)

\* Mutant: a parse that yields no tree leaves the stored tree in place.
Update_KeepsOnFailure(buf, stored, ok, caps) ==
    IF ok THEN Parse(buf, stored, ok, caps) ELSE stored

Update(buf, stored, ok, caps) == Parse(buf, stored, ok, caps)

\* What the parse of an update returned.
ParsedAs(ok) == IF ok THEN "tree" ELSE "none"

\* Mutant: update runs before the buffer is spliced.
UpdateThenEdit(buf, start, end, text, stored, ok, caps) ==
    [buffer |-> ReplaceRange(buf, start, end, text),
     tree |-> Update(buf, stored, ok, caps)]

\* self.buffer.edit(range, new); self.update();
EditThenUpdate(buf, start, end, text, stored, ok, caps) ==
    LET spliced == ReplaceRange(buf, start, end, text)
    IN  [buffer |-> spliced, tree |-> Update(spliced, stored, ok, caps)]

FreeParser == [locked |-> FALSE, poisoned |-> FALSE]

\* self.parser.lock(): the guard is held from here on.
Lock(p) == [p EXCEPT !.locked = TRUE]

\* Mutant: the guard outlives update.
Unlock_Leaks(p) == p

\* The guard `parser` goes out of scope at the end of update.
Unlock(p) == [p EXCEPT !.locked = FALSE]

\* lock().unwrap() returns only on a mutex that is free and not poisoned.
Blocked(p) == p.locked \/ p.poisoned

\* What lock().unwrap() does on a mutex that is not free: the thread that
\* holds it is the thread that asks (Rc keeps every clone on one thread), and
\* std leaves open whether that panics or never returns.
Relock == {"panic", "deadlock"}

\* The mutex as update finds it, as the parse runs, and as update leaves it.
LockTrace(p) == <<p.locked, Lock(p).locked, Unlock(Lock(p)).locked>>

(***************************************************************************)
(* CodeText::new                                                           *)
(***************************************************************************)
New(text, names, ok, caps) ==
    /\ buffer = text
    /\ query = [capture_names |-> names]
    /\ attrs = StyleTable(names)
    /\ parser = Unlock(Lock(FreeParser))
    /\ clones = <<>>
    /\ tree = Update(text, None, ok, caps)
    /\ result = "ok"
    /\ lastOp = "new"
    /\ target = 0
    /\ held = LockTrace(FreeParser)
    /\ req = <<>>
    /\ old = [buffer |-> text, tree |-> None]
    /\ parsed = ParsedAs(ok)
    /\ steps = UpdateSteps
    /\ inputEdit = <<>>
    /\ retained = <<>>
    /\ builder = <<>>

Init ==
    \E text \in Strs(MaxLen) :
        \E p \in ParseOutcomes(EditStreams(Len(text), Len(EditNames))) :
            New(text, EditNames, p.ok, p.caps)

(***************************************************************************)
(* EditableText::edit.  A panic (an index out of bounds in a scan, or      *)
(* String::replace_range refusing the range) unwinds out of the program:   *)
(* nothing in the source catches it, so no call follows one.  The state a  *)
(* panic leaves shows what the call had done when the panic was raised.    *)
(* A splice that would make the buffer longer than MaxLen is left out.     *)
(***************************************************************************)
\* Every CodeText value there is: the first is the one of buffer and tree.
Values == <<[buffer |-> buffer, tree |-> tree]>> \o clones

\* Mutant: the clones hold one buffer and one tree between them.
Written_Aliased(vals, i, v) == [j \in DOMAIN vals |-> v]

\* edit takes &mut self: it writes the fields of the receiver, which owns
\* its String and its Tree.
Written(vals, i, v) == [vals EXCEPT ![i] = v]

\* edit called on value i (0 is the value of buffer and tree, i > 0 is
\* clones[i]) with one of texts, with buffers kept to limit bytes.
EditAt(i, limit, texts) ==
    /\ result = "ok"
    /\ LET self == Values[i + 1]
           Store(v) == LET w == Written(Values, i + 1, v)
                       IN  /\ buffer' = w[1].buffer
                           /\ tree' = w[1].tree
                           /\ clones' = Tail(w)
       IN
       \E start \in 0..(Len(self.buffer) + 1), end \in 0..(Len(self.buffer) + 1),
          text \in texts :
        LET hasTree == IsSome(self.tree)
            startPos == ScanRange(self.buffer, 0, start, SeedPoint)
            oldEndPos == IF startPos = ScanPanic THEN ScanPanic
                         ELSE ScanRange(self.buffer, start, end, startPos)
            newEndPos == ScanText(text, startPos)
            scanPanics == hasTree /\ (startPos = ScanPanic \/ oldEndPos = ScanPanic)
            ie == InputEditOf(start, end, text, startPos, oldEndPos, newEndPos)
            edited == IF hasTree THEN Some(TreeEdit(Unwrap(self.tree), ie))
                      ELSE self.tree
            splicePanics == ReplaceRangePanics(self.buffer, start, end)
            spliced == ReplaceRange(self.buffer, start, end, text)
        IN  /\ req' = [start |-> start, end |-> end, text |-> text]
            /\ old' = self
            /\ lastOp' = "edit"
            /\ target' = i
            /\ retained' = <<>>
            /\ builder' = <<>>
            /\ UNCHANGED <<query, attrs>>
            /\ IF scanPanics
               THEN /\ result' = "panic"
                    /\ steps' = <<>>
                    /\ inputEdit' = <<>>
                    /\ parsed' = "-"
                    /\ held' = <<>>
                    /\ UNCHANGED <<buffer, tree, clones, parser>>
               ELSE IF splicePanics
               THEN /\ result' = "panic"
                    /\ steps' = IF hasTree THEN <<"tree.edit">> ELSE <<>>
                    /\ inputEdit' = IF hasTree THEN <<ie>> ELSE <<>>
                    /\ parsed' = "-"
                    /\ held' = <<>>
                    /\ Store([buffer |-> self.buffer, tree |-> edited])
                    /\ UNCHANGED parser
               ELSE IF Blocked(parser)
               THEN /\ Len(spliced) <= limit
                    /\ result' \in Relock
                    /\ steps' = (IF hasTree THEN <<"tree.edit">> ELSE <<>>)
                                \o <<"buffer.edit">>
                    /\ inputEdit' = IF hasTree THEN <<ie>> ELSE <<>>
                    /\ parsed' = "-"
                    /\ held' = <<parser.locked>>
                    /\ Store([buffer |-> spliced, tree |-> edited])
                    /\ UNCHANGED parser
               ELSE /\ Len(spliced) <= limit
                    /\ result' = "ok"
                    /\ steps' = (IF hasTree THEN <<"tree.edit">> ELSE <<>>)
                                \o <<"buffer.edit">> \o UpdateSteps
                    /\ inputEdit' = IF hasTree THEN <<ie>> ELSE <<>>
                    /\ held' = LockTrace(parser)
                    /\ parser' = Unlock(Lock(parser))
                    /\ \E p \in ParseOutcomes(EditStreams(Len(spliced),
                                                          Len(query.capture_names))) :
                           /\ parsed' = ParsedAs(p.ok)
                           /\ Store(EditThenUpdate(self.buffer, start, end, text,
                                                   edited, p.ok, p.caps))

Edit == EditAt(0, MaxLen, Texts)

(***************************************************************************)
(* TextStorage::add_attributes                                             *)
(***************************************************************************)
AddAttributes ==
    /\ result = "ok"
    /\ lastOp' = "add_attributes"
    /\ req' = <<>>
    /\ old' = [buffer |-> buffer, tree |-> tree]
    /\ parsed' = "-"
    /\ steps' = <<>>
    /\ inputEdit' = <<>>
    /\ target' = 0
    /\ held' = <<>>
    /\ UNCHANGED <<buffer, tree, query, attrs, parser, clones>>
    /\ IF IsSome(tree)
       THEN LET kept == Retained(Unwrap(tree).caps)
            IN  /\ retained' = kept
                /\ builder' = BuildLoop(kept, 1, attrs, <<>>)
                /\ result' = IF IndexPanics(kept, attrs) THEN "panic" ELSE "ok"
       ELSE /\ retained' = <<>>
            /\ builder' = <<>>
            /\ result' = "ok"

Next == Edit \/ AddAttributes

Spec == Init /\ [][Next]_vars

(***************************************************************************)
(* The capture runs: a text whose parse yields any stream of captures, and *)
(* add_attributes over it.                                                 *)
(***************************************************************************)
CaptureText == <<97>>

InitCaptures ==
    \E caps \in CaptureStreams(Len(CaptureText), Len(EditNames)) :
        New(CaptureText, EditNames, TRUE, caps)

NextCaptures == AddAttributes

SpecCaptures == InitCaptures /\ [][NextCaptures]_vars

(***************************************************************************)
(* The style runs: a query with any list of capture names, and             *)
(* add_attributes over the tree of a short text.                           *)
(***************************************************************************)
InitStyle ==
    \E text \in Strs(1), names \in NameLists(MaxNames) :
        \E p \in ParseOutcomes(StyleStreams(Len(text), Len(names))) :
            New(text, names, p.ok, p.caps)

NextStyle == AddAttributes

SpecStyle == InitStyle /\ [][NextStyle]_vars

(***************************************************************************)
(* The clone runs: clones of one CodeText, which share its parser, query   *)
(* and style table, and edits of any of them.                              *)
(***************************************************************************)
\* #[derive(Clone)]: the String and the Option<Tree> are copied, the Rc and
\* Arc handles are counted up.
CloneOf(v) == [buffer |-> v.buffer, tree |-> v.tree]

Clone ==
    /\ result = "ok"
    /\ Len(clones) < MaxClones
    /\ \E i \in 0..Len(clones) :
           /\ clones' = Append(clones, CloneOf(Values[i + 1]))
           /\ target' = i
           /\ old' = Values[i + 1]
    /\ lastOp' = "clone"
    /\ req' = <<>>
    /\ parsed' = "-"
    /\ steps' = <<>>
    /\ inputEdit' = <<>>
    /\ held' = <<>>
    /\ retained' = <<>>
    /\ builder' = <<>>
    /\ UNCHANGED <<buffer, tree, query, attrs, parser, result>>

\* The text the first value is made from, and the replacement texts of the
\* edits.
CloneText == <<97>>

CloneTexts == {<<>>, <<97>>}

EditSelf == EditAt(0, Len(CloneText), CloneTexts)

EditClone == \E i \in 1..Len(clones) : EditAt(i, Len(CloneText), CloneTexts)

InitClones ==
    \E p \in ParseOutcomes(EditStreams(Len(CloneText), Len(EditNames))) :
        New(CloneText, EditNames, p.ok, p.caps)

NextClones == Clone \/ EditSelf \/ EditClone

SpecClones == InitClones /\ [][NextClones]_vars

(***************************************************************************)
(* Properties.                                                             *)
(***************************************************************************)
\* The splice of text into buf at [start, end), byte by byte.
Splice(buf, start, end, text) ==
    [i \in 1..(start + Len(text) + (Len(buf) - end)) |->
        IF i <= start THEN buf[i]
        ELSE IF i <= start + Len(text) THEN text[i - start]
        ELSE buf[i - start - Len(text) + end]]

InBounds(r, buf) == r.start <= r.end /\ r.end <= Len(buf)

OnBoundaries(r, buf) == IsCharBoundary(buf, r.start) /\ IsCharBoundary(buf, r.end)

\* C1 as stated: every edit with start <= end <= len leaves the buffer equal
\* to the old prefix, the replacement text and the old suffix.
C1_SpliceInBounds ==
    (lastOp = "edit" /\ InBounds(req, old.buffer))
        => buffer = Splice(old.buffer, req.start, req.end, req.text)

\* C1 amended: every edit with start <= end <= len whose two ends fall on
\* code-point boundaries leaves the buffer equal to the old prefix, the
\* replacement text and the old suffix, with or without a tree and whether
\* or not the reparse yields one.
C1_SpliceOnBoundaries ==
    (lastOp = "edit" /\ InBounds(req, old.buffer) /\ OnBoundaries(req, old.buffer))
        => /\ result = "ok"
           /\ buffer = Splice(old.buffer, req.start, req.end, req.text)

\* An edit that replaced a non-empty range by a non-empty text while a tree
\* existed, and whose reparse yielded no tree.
C1_Witness ==
    /\ lastOp = "edit"
    /\ result = "ok"
    /\ req.start < req.end
    /\ req.text # <<>>
    /\ IsSome(old.tree)
    /\ parsed = "none"
    /\ buffer # old.buffer

\* C2: an edit with start > end or end > len is rejected and has applied
\* neither a structural edit to the tree nor a splice to the buffer: buffer
\* and tree are as they were when the call began.
C2_InvalidRangeLeavesState ==
    (lastOp = "edit" /\ ~InBounds(req, old.buffer))
        => /\ result # "ok"
           /\ buffer = old.buffer
           /\ tree = old.tree
           /\ steps = <<>>

\* C3: whenever a call has returned, the tree add_attributes would query is
\* absent or was parsed from the buffer as it is now, after the latest
\* splice, and carries no structural edit that was not reparsed.
C3_TreeOfCurrentBuffer ==
    result = "ok"
        => \/ tree = None
           \/ /\ Unwrap(tree).src = buffer
              /\ ~Unwrap(tree).edited

\* An edit that changed the buffer of a CodeText with a tree and came back
\* with a tree.
C3_Witness ==
    /\ lastOp = "edit"
    /\ result = "ok"
    /\ IsSome(old.tree)
    /\ IsSome(tree)
    /\ buffer # old.buffer
    /\ "tree.edit" \in {steps[i] : i \in 1..Len(steps)}

\* C4: the captures the loop of add_attributes keeps hold no two entries of
\* the same node.
C4_NoNodeTwice ==
    lastOp = "add_attributes"
        => \A i \in 1..Len(retained), j \in 1..Len(retained) :
               i < j => retained[i].node # retained[j].node

\* The zero-based position of offset s: the line breaks in [0, s) and the
\* bytes since the last of them.
LineBreaksBefore(buf, s) == {i \in 1..s : buf[i] = NewLine}

ZeroBased(buf, s) ==
    LET breaks == LineBreaksBefore(buf, s)
        lastBreak == IF breaks = {} THEN 0
                     ELSE CHOOSE i \in breaks : \A j \in breaks : j <= i
    IN  Point(Cardinality(breaks), s - lastBreak)

\* C5: the start position of every edit descriptor is the zero-based
\* (line, column) of the edit's start offset in the pre-edit buffer.
C5_StartPositionZeroBased ==
    inputEdit # <<>>
        => inputEdit[1].start_position
               = ZeroBased(old.buffer, inputEdit[1].start_byte)

\* C6: a parse that yields no tree leaves the stored tree absent, without a
\* tree add_attributes adds no range attribute, and an edit of a CodeText
\* without a tree whose parse succeeds stores a tree that was parsed with no
\* previous tree and with no structural edit applied.
C6_NoTreeFallback ==
    /\ parsed = "none" => tree = None
    /\ (lastOp = "add_attributes" /\ tree = None) => builder = <<>>
    /\ (lastOp = "edit" /\ result = "ok" /\ parsed = "tree" /\ old.tree = None)
           => /\ IsSome(tree)
              /\ Unwrap(tree).prev = "none"
              /\ inputEdit = <<>>
              /\ steps = <<"buffer.edit">> \o UpdateSteps

\* An edit of a CodeText without a tree that came back with a tree.
C6_Witness ==
    /\ lastOp = "edit"
    /\ old.tree = None
    /\ parsed = "tree"
    /\ IsSome(tree)

\* C7: the range attributes add_attributes adds are in the order of their
\* start bytes.
C7_SortedByStart ==
    lastOp = "add_attributes"
        => \A i \in 1..Len(builder), j \in 1..Len(builder) :
               i < j => builder[i].range[1] <= builder[j].range[1]

\* C8: after construction and after every edit whose reparse yields a tree,
\* the root of the stored tree covers exactly the bytes of the buffer.
C8_RootCoversBuffer ==
    (result = "ok" /\ IsSome(tree)) => Unwrap(tree).extent = Len(buffer)

\* An edit that changed the length of the buffer of a CodeText with a tree
\* and came back with a tree.
C8_Witness ==
    /\ lastOp = "edit"
    /\ result = "ok"
    /\ IsSome(old.tree)
    /\ IsSome(tree)
    /\ Len(buffer) # Len(old.buffer)

\* C9: add_attributes changes neither buffer, tree, query, style table nor
\* parser, and a second add_attributes with no edit in between adds the same
\* range attributes as the first.
C9_AddAttributesRepeatable ==
    [][lastOp' = "add_attributes"
         => /\ UNCHANGED <<buffer, tree, query, attrs, parser>>
            /\ lastOp = "add_attributes" => builder' = builder]_vars

\* add_attributes has added a range attribute from a tree.
C9_Witness ==
    /\ lastOp = "add_attributes"
    /\ result = "ok"
    /\ IsSome(tree)
    /\ builder # <<>>

\* C10: the style table has one entry per capture name of the query, a name
\* outside the known ones has the underline style, and every capture kept by
\* add_attributes finds its entry: none panics, none is dropped.
C10_StyleResolutionTotal ==
    /\ Len(attrs) = Len(query.capture_names)
    /\ \A i \in 1..Len(query.capture_names) :
           query.capture_names[i] \notin KnownNames => attrs[i] = Underline(TRUE)
    /\ lastOp = "add_attributes"
           => /\ result = "ok"
              /\ Len(builder) = Len(retained)
              /\ \A i \in 1..Len(retained) :
                     builder[i].attr = attrs[retained[i].index + 1]

\* add_attributes has styled a capture whose name is not a known one.
C10_Witness ==
    /\ lastOp = "add_attributes"
    /\ builder # <<>>
    /\ query.capture_names[retained[1].index + 1] \notin KnownNames
    /\ builder[1].attr = Underline(TRUE)

(***************************************************************************)
(* The order of the steps of an edit.                                      *)
(***************************************************************************)
Occurrences(seq, x) == Cardinality({i \in 1..Len(seq) : seq[i] = x})

\* C11: an edit that returns has applied the structural edit to the stored
\* tree (only when there was one), then spliced the buffer, then run one
\* reparse, under the parser's lock, of the spliced buffer with the edited
\* tree (or none) as previous tree; the tree it leaves carries no structural
\* edit.  An edit that panics has stopped before the splice.
C11_EditStepsInOrder ==
    lastOp = "edit"
        => /\ result = "ok"
                => /\ steps = (IF IsSome(old.tree) THEN <<"tree.edit">> ELSE <<>>)
                              \o <<"buffer.edit">> \o UpdateSteps
                   /\ Occurrences(steps, "parser.parse") = 1
                   /\ inputEdit # <<>> <=> IsSome(old.tree)
                   /\ parsed \in {"tree", "none"}
                   /\ IsSome(tree)
                        => /\ Unwrap(tree).src = buffer
                           /\ ~Unwrap(tree).edited
                           /\ Unwrap(tree).prev
                                = IF IsSome(old.tree) THEN "edited" ELSE "none"
           /\ result = "panic"
                => /\ steps \in {<<>>, <<"tree.edit">>}
                   /\ buffer = old.buffer
                   /\ parsed = "-"

\* An edit of a CodeText with a tree that returned with a tree parsed from
\* the edited one.
C11_Witness ==
    /\ lastOp = "edit"
    /\ result = "ok"
    /\ IsSome(old.tree)
    /\ IsSome(tree)
    /\ Unwrap(tree).prev = "edited"
    /\ buffer # old.buffer

(***************************************************************************)
(* What the loop of add_attributes keeps of a stream.                      *)
(***************************************************************************)
\* The stream add_attributes ran over: the captures of the queried tree.
Stream == IF IsSome(tree) THEN Unwrap(tree).caps ELSE <<>>

\* a is b with some entries left out, the others in their order.
RECURSIVE IsSubsequence(_, _)
IsSubsequence(a, b) ==
    IF a = <<>> THEN TRUE
    ELSE IF b = <<>> THEN FALSE
    ELSE IF Head(a) = Head(b) THEN IsSubsequence(Tail(a), Tail(b))
    ELSE IsSubsequence(a, Tail(b))

NodesOf(seq) == {seq[i].node : i \in 1..Len(seq)}

\* The first entry of seq that references node n.
FirstOf(seq, n) ==
    seq[CHOOSE i \in 1..Len(seq) :
            /\ seq[i].node = n
            /\ \A j \in 1..(i - 1) : seq[j].node # n]

\* C12: the kept captures are a subsequence of the stream, and for every
\* node of the stream the first capture that references it is kept, as that
\* node's first kept capture.
C12_FirstCaptureKept ==
    lastOp = "add_attributes"
        => /\ IsSubsequence(retained, Stream)
           /\ \A n \in NodesOf(Stream) :
                  /\ n \in NodesOf(retained)
                  /\ FirstOf(retained, n) = FirstOf(Stream, n)

\* add_attributes has dropped the second of two captures of one node that
\* differ in their capture name, and kept the first.
C12_Witness ==
    /\ lastOp = "add_attributes"
    /\ Len(Stream) >= 2
    /\ Stream[1].node = Stream[2].node
    /\ Stream[1].index # Stream[2].index
    /\ Len(retained) < Len(Stream)
    /\ retained[1] = Stream[1]

\* The positions of the stream whose capture the loop skips: those whose
\* node is the node of the capture just before.
Skipped(seq) == {i \in 2..Len(seq) : seq[i].node = seq[i - 1].node}

\* C13: a capture is dropped only when an earlier capture of the stream
\* references the same node, so as many captures are kept as the stream has
\* positions that do not repeat the node before them, and two nodes with the
\* same byte range are both kept.
C13_KeyedOnNodeIdentity ==
    lastOp = "add_attributes"
        => /\ Len(retained) = Len(Stream) - Cardinality(Skipped(Stream))
           /\ \A i \in 1..Len(Stream), j \in 1..Len(Stream) :
                  (Stream[i].node # Stream[j].node /\ Stream[i].range = Stream[j].range)
                      => {Stream[i].node, Stream[j].node} \subseteq NodesOf(retained)

\* add_attributes has kept the captures of two nodes with the same byte
\* range that follow each other in the stream.
C13_Witness ==
    /\ lastOp = "add_attributes"
    /\ Len(Stream) >= 2
    /\ Stream[1].node # Stream[2].node
    /\ Stream[1].range = Stream[2].range
    /\ Len(retained) >= 2
    /\ retained[1].node # retained[2].node
    /\ retained[1].range = retained[2].range

(***************************************************************************)
(* The edit descriptor.                                                    *)
(***************************************************************************)
\* Position p moved over bytes: past the last line break of bytes, if it has
\* one, the line is p's plus the line breaks and the column the bytes after
\* the last of them; without one the column grows by the bytes.
MovedOver(p, bytes) ==
    LET breaks == {i \in 1..Len(bytes) : bytes[i] = NewLine}
    IN  IF breaks = {} THEN Point(p.row, p.column + Len(bytes))
        ELSE Point(p.row + Cardinality(breaks),
                   Len(bytes) - (CHOOSE i \in breaks : \A j \in breaks : j <= i))

\* C14: in every edit descriptor old_end_position is start_position moved
\* over the bytes [start, end) of the pre-edit buffer, and new_end_position is
\* start_position, not old_end_position, moved over the replacement text.
C14_EndPositions ==
    inputEdit # <<>>
        => LET ie == inputEdit[1]
           IN  /\ ie.old_end_position
                    = MovedOver(ie.start_position,
                                SubSeq(old.buffer, req.start + 1, req.end))
               /\ ie.new_end_position = MovedOver(ie.start_position, req.text)

\* An edit handed Tree::edit a descriptor for a range with a line break in
\* it, replaced by a text with a line break.
C14_Witness ==
    /\ lastOp = "edit"
    /\ result = "ok"
    /\ inputEdit # <<>>
    /\ req.start < req.end
    /\ NewLine \in {old.buffer[i] : i \in (req.start + 1)..req.end}
    /\ req.text = <<NewLine>>
    /\ inputEdit[1].old_end_position # inputEdit[1].start_position

\* C15: for every edit in the bounds of the buffer applied while a tree
\* exists, the descriptor has start_byte = start, old_end_byte = end and
\* new_end_byte = start + the bytes of the text, and the extent of the tree
\* after the structural edit, the old extent less the old range plus the new
\* one, is the length the splice gives the buffer.
C15_EditedExtentIsNewLength ==
    (lastOp = "edit" /\ IsSome(old.tree) /\ InBounds(req, old.buffer))
        => /\ inputEdit # <<>>
           /\ LET ie == inputEdit[1]
                  was == Unwrap(old.tree).extent
                  now == was - (ie.old_end_byte - ie.start_byte)
                             + (ie.new_end_byte - ie.start_byte)
              IN  /\ ie.start_byte = req.start
                  /\ ie.old_end_byte = req.end
                  /\ ie.new_end_byte = req.start + Len(req.text)
                  /\ TreeEdit(Unwrap(old.tree), ie).extent = now
                  /\ now = Len(old.buffer) - (req.end - req.start) + Len(req.text)
                  /\ result = "ok" => now = Len(buffer)
                  /\ result = "panic" => Unwrap(tree).extent = now

\* An edit of a CodeText with a tree replaced a non-empty range by a text of
\* another length.
C15_Witness ==
    /\ lastOp = "edit"
    /\ result = "ok"
    /\ IsSome(old.tree)
    /\ req.start < req.end
    /\ req.text # <<>>
    /\ Len(buffer) # Len(old.buffer)

(***************************************************************************)
(* Clones.                                                                 *)
(***************************************************************************)
\* C16: the shared parser parses only under its mutex: every update, of
\* whichever clone, finds the mutex free, holds it while the parse runs and
\* has released it when it returns, so no call ends blocked on the mutex and
\* between calls the mutex is free and not poisoned.
C16_ParserLockedForEachParse ==
    /\ ~parser.locked
    /\ ~parser.poisoned
    /\ result # "deadlock"
    /\ held # <<>> => held = <<FALSE, TRUE, FALSE>>
    /\ parsed # "-" => held # <<>>
    /\ (lastOp = "edit" /\ result = "ok") => (held # <<>> /\ parsed # "-")

\* A clone was edited, and so reparsed on the shared parser, after the value
\* it was cloned from had been edited and reparsed on it.
C16_Witness ==
    /\ lastOp = "edit"
    /\ result = "ok"
    /\ target > 0
    /\ held = <<FALSE, TRUE, FALSE>>
    /\ buffer # CloneText
    /\ clones[target].buffer # buffer

\* C17: an edit changes the buffer and the tree of the value it is called on
\* and of no other: every other clone has the buffer and the tree it had, and
\* the shared query and style table are the ones they were.
C17_EditChangesReceiverOnly ==
    [][lastOp' = "edit"
           => /\ query' = query
              /\ attrs' = attrs
              /\ Len(clones') = Len(clones)
              /\ \A j \in 0..Len(clones) :
                     j # target' => /\ Values'[j + 1].buffer = Values[j + 1].buffer
                                    /\ Values'[j + 1].tree = Values[j + 1].tree]_vars

\* An edit changed the buffer and the tree of a value that has a clone, and
\* the clone has the buffer the value had before.
C17_Witness ==
    /\ lastOp = "edit"
    /\ result = "ok"
    /\ target = 0
    /\ Len(clones) > 0
    /\ buffer # old.buffer
    /\ tree # old.tree
    /\ clones[1].buffer = old.buffer
    /\ clones[1].tree = old.tree

====
